---- MODULE Spec2Model ----
(***************************************************************************)
(* Model of script.js of movie-info-search: the search form, the results   *)
(* region, the two OMDb requests and the single overlay with its dismissal *)
(* listeners.  The page runs on one event loop: every action below is one  *)
(* run-to-completion step of a handler, up to its next await.              *)
(***************************************************************************)
EXTENDS Integers, Sequences, FiniteSets, TLC

(* ------------------------------ bounds --------------------------------- *)

\* number of requests (searches and detail fetches together) ever issued
MaxRequests == 3

\* longest Search array the service returns
MaxCards == 2

(* --------------------------- program constants -------------------------- *)

API_KEY == "3fcedd4f"

OMDB_BASE == "https://www.omdbapi.com/"

(* --------------------------- JavaScript values -------------------------- *)

\* the value of a property an object does not have
Undefined == "<undefined>"

\* a null entry of an array: an object none of whose properties can be read
NullRecord == [null |-> TRUE]

\* JavaScript truthiness of a string-or-undefined value
Truthy(v) == v # Undefined /\ v # ""

\* a || b on string-or-undefined values
Or(a, b) == IF Truthy(a) THEN a ELSE b

\* o.f : Undefined when the object has no such property
Get(o, f) == IF f \in DOMAIN o THEN o[f] ELSE Undefined

Range(s) == {s[i] : i \in 1..Len(s)}

\* the characters of a sequence of one-character strings, as one string
RECURSIVE Join(_)
Join(s) == IF s = <<>> THEN "" ELSE Head(s) \o Join(Tail(s))

\* String.prototype.trim on a sequence of characters
RECURSIVE TrimStart(_)
TrimStart(s) == IF s # <<>> /\ Head(s) = " " THEN TrimStart(Tail(s)) ELSE s

RECURSIVE TrimEnd(_)
TrimEnd(s) ==
  IF s # <<>> /\ s[Len(s)] = " " THEN TrimEnd(SubSeq(s, 1, Len(s) - 1)) ELSE s

\* a trim that leaves the text as typed
TrimNothing(s) == s

Trim(s) == TrimEnd(TrimStart(s))

\* encodeURIComponent on the characters the inputs use: a space is escaped
RECURSIVE EncodeURIComponent(_)
EncodeURIComponent(s) ==
  IF s = <<>> THEN ""
  ELSE (IF Head(s) = " " THEN "%20" ELSE Head(s)) \o EncodeURIComponent(Tail(s))

\* encodeURIComponent of an identifier, which holds no character to escape
EncodeId(id) == IF id = Undefined THEN "undefined" ELSE id

(* ------------------------------- inputs -------------------------------- *)

\* what the user may have typed into #query when the form is submitted
Queries ==
  { <<>>, <<" ", " ">>, <<" ", "b", " ", "b", " ">> }

\* HTTP statuses the service answers with
Statuses == {200, 404}

\* how a fetch() settles: rejected by the transport, or a response
FetchOutcomes ==
  { [type |-> "reject", message |-> "Failed to fetch"] } \cup
  { [type |-> "response", ok |-> (s >= 200 /\ s <= 299), status |-> s] :
      s \in Statuses }

Ids == {"tt1", "tt2"}

TitleOf(id) == IF id = "tt1" THEN "Batman" ELSE "Batman Returns"

YearOf(id) == IF id = "tt1" THEN "1989" ELSE "1992"

PosterUrl(id) == "https://img/" \o id \o ".jpg"

BaseRecord(id) == [imdbID |-> id, Title |-> TitleOf(id), Year |-> YearOf(id)]

\* raw search records the service holds: a usable poster, no poster field,
\* the sentinel, an empty poster field
Catalogue ==
  << [imdbID |-> "tt1", Title |-> TitleOf("tt1"), Year |-> YearOf("tt1"),
      Poster |-> PosterUrl("tt1")],
     BaseRecord("tt2"),
     [imdbID |-> "tt1", Title |-> TitleOf("tt1"), Year |-> YearOf("tt1"),
      Poster |-> "N/A"],
     [imdbID |-> "tt2", Title |-> TitleOf("tt2"), Year |-> YearOf("tt2"),
      Poster |-> ""] >>

\* k records of the catalogue, from the one after start on, cyclically
Window(start, k) ==
  [i \in 1..k |-> Catalogue[((start + i - 1) % Len(Catalogue)) + 1]]

\* Search arrays: no record, runs of records, or a null the page cannot
\* render
SearchLists ==
  {<<>>, <<NullRecord>>} \cup
  { Window(start, k) : start \in 0..(Len(Catalogue) - 1), k \in 1..MaxCards }

\* parsed bodies of a search response
SearchBodies ==
  { [Response |-> "True", Search |-> l] : l \in SearchLists } \cup
  { [Response |-> "True"],
    [Search |-> <<>>],
    [Response |-> "False", Error |-> "Movie not found!"],
    [Response |-> "False", Error |-> ""],
    [Response |-> "False"] }

\* parsed bodies of a detail response for identifier id
DetailBodies(id) ==
  { [Response |-> "True", imdbID |-> id, Title |-> TitleOf(id),
     Year |-> YearOf(id), Poster |-> PosterUrl(id), Rated |-> "PG-13",
     Runtime |-> "126 min", Genre |-> "Action", Plot |-> "A plot.",
     Director |-> "Tim Burton",
     Ratings |-> << [Source |-> "Internet Movie Database", Value |-> "7.5/10"] >>],
    [Response |-> "True", imdbID |-> id, Title |-> TitleOf(id), Poster |-> "N/A"],
    [Response |-> "False", Error |-> "Incorrect IMDb ID."],
    [Response |-> "False"] }

(* ------------------------------- state --------------------------------- *)

VARIABLES
  results,    \* children of #results, in document order
  overlay,    \* #overlay: hidden, ariaHidden, children, click listeners
  keydown,    \* keydown listeners of document, in registration order
  pending,    \* requests in flight, each with the position of its handler
  nextReq,    \* number the next request gets
  lastAct,    \* number of the most recent activation of a Details control
  shownAct,   \* number of the activation whose handler last wrote the overlay
  console,    \* the error console.error printed last
  unhandled   \* an error left a handler uncaught

vars ==
  << results, overlay, keydown, pending, nextReq, lastAct, shownAct, console,
     unhandled >>

(* ------------------------------ rendering ------------------------------ *)

\* renderMessage: the region holds one paragraph and nothing else
RenderMessage(text) == << [tag |-> "p", text |-> text] >>

\* toSimple: throws on a null entry (ToSimpleThrows), else the simple record
ToSimpleThrows(omdb) == omdb = NullRecord

\* toSimple that passes the poster field through whenever it is non-empty
ToSimpleKeepsSentinel(omdb) ==
  [id |-> Get(omdb, "imdbID"),
   title |-> Get(omdb, "Title"),
   year |-> Get(omdb, "Year"),
   poster |-> IF Truthy(Get(omdb, "Poster")) THEN Get(omdb, "Poster") ELSE ""]

ToSimple(omdb) ==
  [id |-> Get(omdb, "imdbID"),
   title |-> Get(omdb, "Title"),
   year |-> Get(omdb, "Year"),
   poster |-> IF Truthy(Get(omdb, "Poster")) /\ Get(omdb, "Poster") # "N/A"
              THEN Get(omdb, "Poster") ELSE ""]

\* the poster element of a card: an image, or the placeholder block
Thumb(m) ==
  IF Truthy(m.poster)
  THEN [tag |-> "img", className |-> "thumb", src |-> m.poster, alt |-> m.title]
  ELSE [tag |-> "div", className |-> "thumb", textContent |-> "No Poster"]

\* one card; btn is the identifier the Details click handler closes over
Card(m) ==
  [tag |-> "article", className |-> "card", thumb |-> Thumb(m),
   title |-> m.title, meta |-> m.year, btn |-> m.id]

Cards(movies) == [i \in 1..Len(movies) |-> Card(ToSimple(movies[i]))]

\* renderResults that appends the cards to what the region holds
RenderResultsNoClear(prior, movies) ==
  IF Len(movies) = 0
  THEN [results |-> RenderMessage("No results - try another search?"),
        threw |-> FALSE]
  ELSE IF \E i \in 1..Len(movies) : ToSimpleThrows(movies[i])
  THEN [results |-> prior, threw |-> TRUE,
        err |-> [name |-> "TypeError",
                 message |-> "Cannot read properties of null"]]
  ELSE [results |-> prior \o Cards(movies), threw |-> FALSE]

\* renderResults without the branch for an empty list
RenderResultsNoEmptyBranch(prior, movies) ==
  IF \E i \in 1..Len(movies) : ToSimpleThrows(movies[i])
  THEN [results |-> <<>>, threw |-> TRUE,
        err |-> [name |-> "TypeError",
                 message |-> "Cannot read properties of null"]]
  ELSE [results |-> <<>> \o Cards(movies), threw |-> FALSE]

\* renderResults on a region holding prior: the region afterwards, and
\* whether the call threw (map(toSimple) runs over the whole array before
\* the first card is appended, so a null entry leaves the region cleared)
RenderResults(prior, movies) ==
  IF Len(movies) = 0
  THEN [results |-> RenderMessage("No results - try another search?"),
        threw |-> FALSE]
  ELSE IF \E i \in 1..Len(movies) : ToSimpleThrows(movies[i])
  THEN [results |-> <<>>, threw |-> TRUE,
        err |-> [name |-> "TypeError",
                 message |-> "Cannot read properties of null"]]
  ELSE [results |-> <<>> \o Cards(movies), threw |-> FALSE]

(* ------------------------------ API client ----------------------------- *)

\* searchMovies from the settling of fetch(url) to the await of res.json()
SearchMoviesOnResponse(res) ==
  IF res.type = "reject"
  THEN [threw |-> TRUE, err |-> [name |-> "TypeError", message |-> res.message]]
  ELSE IF ~res.ok
  THEN [threw |-> TRUE,
        err |-> [name |-> "Error",
                 message |-> "network error: " \o ToString(res.status)]]
  ELSE [threw |-> FALSE]

\* searchMovies whose error carries the Error field as it came
SearchMoviesOnBodyNoFallback(data) ==
  IF Get(data, "Response") = "False"
  THEN [threw |-> TRUE,
        err |-> [name |-> "Error", message |-> Get(data, "Error")]]
  ELSE [threw |-> FALSE,
        value |-> IF "Search" \in DOMAIN data THEN data.Search ELSE <<>>]

\* searchMovies from the settling of res.json() to its return
SearchMoviesOnBody(data) ==
  IF Get(data, "Response") = "False"
  THEN [threw |-> TRUE,
        err |-> [name |-> "Error",
                 message |-> Or(Get(data, "Error"), "Unknown OMDb error")]]
  ELSE [threw |-> FALSE,
        value |-> IF "Search" \in DOMAIN data THEN data.Search ELSE <<>>]

\* fetchMovieById from the settling of fetch(url) to the await of res.json()
FetchMovieByIdOnResponse(res) ==
  IF res.type = "reject"
  THEN [threw |-> TRUE, err |-> [name |-> "TypeError", message |-> res.message]]
  ELSE IF ~res.ok
  THEN [threw |-> TRUE,
        err |-> [name |-> "Error",
                 message |-> "network error: " \o ToString(res.status)]]
  ELSE [threw |-> FALSE]

\* fetchMovieById from the settling of res.json() to its return
FetchMovieByIdOnBody(data) ==
  IF Get(data, "Response") = "False"
  THEN [threw |-> TRUE,
        err |-> [name |-> "Error",
                 message |-> Or(Get(data, "Error"), "Could not load details")]]
  ELSE [threw |-> FALSE, value |-> data]

SearchUrl(query) ==
  OMDB_BASE \o "?apikey=" \o API_KEY \o "&s=" \o EncodeURIComponent(query)

DetailUrl(id) ==
  OMDB_BASE \o "?apikey=" \o API_KEY \o "&i=" \o EncodeId(id) \o "&plot=full"

(* ------------------------------- overlay ------------------------------- *)

\* addEventListener that registers a listener once more on every call
AddEventListenerAgain(list, h) == Append(list, h)

\* EventTarget.addEventListener: a listener already registered for the
\* event is not registered again
AddEventListener(list, h) == IF h \in Range(list) THEN list ELSE Append(list, h)

\* EventTarget.removeEventListener: removes the registration of h, if any
RemoveEventListener(list, h) ==
  IF h \in Range(list)
  THEN LET i == CHOOSE j \in 1..Len(list) :
                  list[j] = h /\ \A k \in 1..(j - 1) : list[k] # h
       IN  SubSeq(list, 1, i - 1) \o SubSeq(list, i + 1, Len(list))
  ELSE list

\* The overlay functions work on dom = [overlay, keydown]: the #overlay
\* element and the keydown listeners of document.

\* openOverlayWith
OpenOverlayWith(dom, node) ==
  [overlay |-> [hidden |-> FALSE,
                ariaHidden |-> "false",
                children |-> <<node>>,
                click |-> AddEventListener(dom.overlay.click, "onBackdropClick")],
   keydown |-> AddEventListener(dom.keydown, "onEsc")]

\* closeOverlay that also empties the overlay
CloseOverlayClearsPanel(dom) ==
  [overlay |-> [hidden |-> TRUE,
                ariaHidden |-> "true",
                children |-> <<>>,
                click |-> RemoveEventListener(dom.overlay.click, "onBackdropClick")],
   keydown |-> RemoveEventListener(dom.keydown, "onEsc")]

\* closeOverlay
CloseOverlay(dom) ==
  [overlay |-> [hidden |-> TRUE,
                ariaHidden |-> "true",
                children |-> dom.overlay.children,
                click |-> RemoveEventListener(dom.overlay.click, "onBackdropClick")],
   keydown |-> RemoveEventListener(dom.keydown, "onEsc")]

\* onBackdropClick that closes whatever the click landed on
OnBackdropClickAnyTarget(dom, e) == CloseOverlay(dom)

\* onBackdropClick
OnBackdropClick(dom, e) == IF e.target = "overlay" THEN CloseOverlay(dom) ELSE dom

\* onEsc
OnEsc(dom, e) == IF e.key = "Escape" THEN CloseOverlay(dom) ELSE dom

\* the panel showOverlayLoading builds
LoadingPanel(text) ==
  [className |-> "overlay__panel", role |-> "dialog", ariaModal |-> "true",
   placeholder |-> "...", text |-> Or(text, "Loading...")]

\* showOverlayLoading
ShowOverlayLoading(dom, text) == OpenOverlayWith(dom, LoadingPanel(text))

\* the pills of the Ratings array
RatingPills(data) ==
  IF "Ratings" \in DOMAIN data
  THEN [i \in 1..Len(data.Ratings) |->
          data.Ratings[i].Source \o ": " \o data.Ratings[i].Value]
  ELSE <<>>

\* the panel showOverlayDetails builds; close holds the click listeners of
\* the #overlayClose button
DetailPanel(data) ==
  [className |-> "overlay__panel", role |-> "dialog", ariaModal |-> "true",
   poster |-> IF Truthy(Get(data, "Poster")) /\ Get(data, "Poster") # "N/A"
              THEN [tag |-> "img", src |-> Get(data, "Poster"),
                    alt |-> Get(data, "Title")]
              ELSE [tag |-> "div", text |-> "No poster"],
   title |-> Get(data, "Title"),
   year |-> Or(Get(data, "Year"), "N/A"),
   rated |-> Or(Get(data, "Rated"), "Unrated"),
   runtime |-> Or(Get(data, "Runtime"), "N/A"),
   genre |-> Or(Get(data, "Genre"), ""),
   plot |-> Or(Get(data, "Plot"), "No plot available."),
   ratings |-> RatingPills(data),
   director |-> Or(Get(data, "Director"), "Unknown"),
   imdb |-> Get(data, "imdbID"),
   close |-> <<>>]

\* showOverlayDetails: opens, then wires the Close button of the panel
ShowOverlayDetails(dom, data) ==
  LET opened == OpenOverlayWith(dom, DetailPanel(data))
      panel == opened.overlay.children[1]
  IN  [opened EXCEPT !.overlay.children =
         << [panel EXCEPT !.close = AddEventListener(panel.close, "closeOverlay")] >>]

\* one registered listener, called with event e
CallListener(h, dom, e) ==
  CASE h = "onBackdropClick" -> OnBackdropClick(dom, e)
    [] h = "onEsc" -> OnEsc(dom, e)
    [] h = "closeOverlay" -> CloseOverlay(dom)

\* the listeners of one event target, called in registration order
RECURSIVE CallListeners(_, _, _)
CallListeners(list, dom, e) ==
  IF list = <<>> THEN dom
  ELSE CallListeners(Tail(list), CallListener(Head(list), dom, e), e)

\* does the panel on show have a Close control
HasCloseControl(ov) == ov.children # <<>> /\ "close" \in DOMAIN ov.children[1]

\* dispatch of a click inside the overlay: the listeners of the Close
\* button when it is the target, then, bubbling, those of #overlay
DispatchClick(dom, e) ==
  LET atTarget == IF e.target = "overlayClose"
                  THEN CallListeners(dom.overlay.children[1].close, dom, e)
                  ELSE dom
  IN  CallListeners(atTarget.overlay.click, atTarget, e)

\* dispatch of a key press: the keydown listeners of document
DispatchKeydown(dom, e) == CallListeners(dom.keydown, dom, e)

(* ------------------------------- actions ------------------------------- *)

NoError == [name |-> "none", message |-> ""]

\* the page as loaded: an empty results region and the overlay Closed
PageResults == <<>>

PageOverlay ==
  [hidden |-> TRUE, ariaHidden |-> "true", children |-> <<>>, click |-> <<>>]

Init ==
  /\ results = PageResults
  /\ overlay = PageOverlay
  /\ keydown = <<>>
  /\ pending = {}
  /\ nextReq = 1
  /\ lastAct = 0
  /\ shownAct = 0
  /\ console = NoError
  /\ unhandled = FALSE

Dom == [overlay |-> overlay, keydown |-> keydown]

SetDom(dom) == overlay' = dom.overlay /\ keydown' = dom.keydown

\* a catch block that shows the message of the error it caught
SubmitCatchShowsError(err) == RenderMessage(err.message)

\* the catch block of the submit handler: what it puts in the region
SubmitCatch(err) == RenderMessage("Something went wrong - try again")

\* the catch block of the Details click handler: the text it shows
DetailsCatchText(err) == Or(err.message, "Could not load details")

\* submit handler, up to the await of fetch() inside searchMovies
Submit(value) ==
  LET query == Trim(value)
  IN  IF query = <<>>
      THEN /\ results' = RenderMessage("Type a movie title to search!")
           /\ UNCHANGED << overlay, keydown, pending, nextReq, lastAct,
                           shownAct, console, unhandled >>
      ELSE /\ nextReq <= MaxRequests
           /\ results' = RenderMessage("Searching for: " \o Join(query) \o "...")
           /\ pending' = pending \cup
                 { [n |-> nextReq, kind |-> "search", arg |-> Join(query),
                    url |-> SearchUrl(query), pc |-> "fetch"] }
           /\ nextReq' = nextReq + 1
           /\ UNCHANGED << overlay, keydown, lastAct, shownAct, console,
                           unhandled >>

\* submit handler resumed when fetch() settles with res
SearchFetchSettle(r, res) ==
  /\ r \in pending /\ r.kind = "search" /\ r.pc = "fetch"
  /\ LET o == SearchMoviesOnResponse(res)
     IN  IF o.threw
         THEN /\ results' = SubmitCatch(o.err)
              /\ console' = o.err
              /\ pending' = pending \ {r}
         ELSE /\ pending' = (pending \ {r}) \cup {[r EXCEPT !.pc = "json"]}
              /\ UNCHANGED << results, console >>
  /\ UNCHANGED << overlay, keydown, nextReq, lastAct, shownAct, unhandled >>

\* submit handler resumed when res.json() settles with data
SearchJsonSettle(r, data) ==
  /\ r \in pending /\ r.kind = "search" /\ r.pc = "json"
  /\ LET o == SearchMoviesOnBody(data)
     IN  IF o.threw
         THEN results' = SubmitCatch(o.err) /\ console' = o.err
         ELSE LET rr == RenderResults(results, o.value)
              IN  IF rr.threw
                  THEN results' = SubmitCatch(rr.err) /\ console' = rr.err
                  ELSE results' = rr.results /\ UNCHANGED console
  /\ pending' = pending \ {r}
  /\ UNCHANGED << overlay, keydown, nextReq, lastAct, shownAct, unhandled >>

\* click on the Details button of the i-th card, up to the await of fetch()
ClickDetails(i) ==
  /\ i \in 1..Len(results) /\ results[i].tag = "article"
  /\ nextReq <= MaxRequests
  /\ SetDom(ShowOverlayLoading(Dom, "Loading details..."))
  /\ pending' = pending \cup
        { [n |-> nextReq, kind |-> "detail", arg |-> results[i].btn,
           url |-> DetailUrl(results[i].btn), pc |-> "fetch"] }
  /\ nextReq' = nextReq + 1
  /\ lastAct' = nextReq
  /\ shownAct' = nextReq
  /\ UNCHANGED << results, console, unhandled >>

\* a handler that closes the overlay when the fetch fails
DetailFetchSettleClosesOnError(r, res) ==
  /\ r \in pending /\ r.kind = "detail" /\ r.pc = "fetch"
  /\ LET o == FetchMovieByIdOnResponse(res)
     IN  IF o.threw
         THEN /\ SetDom(CloseOverlay(Dom))
              /\ console' = o.err
              /\ shownAct' = r.n
              /\ pending' = pending \ {r}
         ELSE /\ pending' = (pending \ {r}) \cup {[r EXCEPT !.pc = "json"]}
              /\ UNCHANGED << overlay, keydown, console, shownAct >>
  /\ UNCHANGED << results, nextReq, lastAct, unhandled >>

\* Details click handler resumed when fetch() settles with res
DetailFetchSettle(r, res) ==
  /\ r \in pending /\ r.kind = "detail" /\ r.pc = "fetch"
  /\ LET o == FetchMovieByIdOnResponse(res)
     IN  IF o.threw
         THEN /\ SetDom(ShowOverlayLoading(Dom, DetailsCatchText(o.err)))
              /\ console' = o.err
              /\ shownAct' = r.n
              /\ pending' = pending \ {r}
         ELSE /\ pending' = (pending \ {r}) \cup {[r EXCEPT !.pc = "json"]}
              /\ UNCHANGED << overlay, keydown, console, shownAct >>
  /\ UNCHANGED << results, nextReq, lastAct, unhandled >>

\* a handler that drops the outcome of a request a later activation superseded
DetailJsonSettleDropsStale(r, data) ==
  /\ r \in pending /\ r.kind = "detail" /\ r.pc = "json"
  /\ IF r.n = lastAct
     THEN /\ LET o == FetchMovieByIdOnBody(data)
             IN  IF o.threw
                 THEN /\ SetDom(ShowOverlayLoading(Dom, DetailsCatchText(o.err)))
                      /\ console' = o.err
                 ELSE /\ SetDom(ShowOverlayDetails(Dom, o.value))
                      /\ UNCHANGED console
          /\ shownAct' = r.n
     ELSE UNCHANGED << overlay, keydown, console, shownAct >>
  /\ pending' = pending \ {r}
  /\ UNCHANGED << results, nextReq, lastAct, unhandled >>

\* Details click handler resumed when res.json() settles with data
DetailJsonSettle(r, data) ==
  /\ r \in pending /\ r.kind = "detail" /\ r.pc = "json"
  /\ LET o == FetchMovieByIdOnBody(data)
     IN  IF o.threw
         THEN /\ SetDom(ShowOverlayLoading(Dom, DetailsCatchText(o.err)))
              /\ console' = o.err
         ELSE /\ SetDom(ShowOverlayDetails(Dom, o.value))
              /\ UNCHANGED console
  /\ shownAct' = r.n
  /\ pending' = pending \ {r}
  /\ UNCHANGED << results, nextReq, lastAct, unhandled >>

\* what a click inside the visible overlay can land on
ClickTargets ==
  {"overlay"} \cup (IF overlay.children # <<>> THEN {"panel"} ELSE {})
              \cup (IF HasCloseControl(overlay) THEN {"overlayClose"} ELSE {})

\* the user clicks inside the visible overlay
OverlayClick(target) ==
  /\ ~overlay.hidden
  /\ target \in ClickTargets
  /\ SetDom(DispatchClick(Dom, [target |-> target]))
  /\ UNCHANGED << results, pending, nextReq, lastAct, shownAct, console,
                  unhandled >>

Keys == {"Escape", "Enter"}

\* the user presses a key
Keydown(key) ==
  /\ SetDom(DispatchKeydown(Dom, [key |-> key]))
  /\ UNCHANGED << results, pending, nextReq, lastAct, shownAct, console,
                  unhandled >>

Next ==
  \/ \E value \in Queries : Submit(value)
  \/ \E r \in pending, res \in FetchOutcomes : SearchFetchSettle(r, res)
  \/ \E r \in pending, data \in SearchBodies : SearchJsonSettle(r, data)
  \/ \E i \in 1..MaxCards : ClickDetails(i)
  \/ \E r \in pending, res \in FetchOutcomes : DetailFetchSettle(r, res)
  \/ \E r \in pending : \E data \in DetailBodies(r.arg) : DetailJsonSettle(r, data)
  \/ \E target \in {"overlay", "panel", "overlayClose"} : OverlayClick(target)
  \/ \E key \in Keys : Keydown(key)

Spec == Init /\ [][Next]_vars

\* every detail request in flight is answered: its fetch() settles, and so
\* does the res.json() of a response
SpecAnswered ==
  /\ Spec
  /\ WF_vars(\E r \in pending, res \in FetchOutcomes : DetailFetchSettle(r, res))
  /\ WF_vars(\E r \in pending :
               \E data \in DetailBodies(r.arg) : DetailJsonSettle(r, data))

(* ------------------------------- claims -------------------------------- *)

Closed == overlay.hidden /\ overlay.ariaHidden = "true"

Panel == overlay.children[1]

\* C1: while the overlay is visible it has exactly one backdrop-click
\* listener and exactly one keydown listener, and while it is hidden it has
\* neither, whatever sequence of opens and closes led there.
C1_OneListenerSetWhileVisible ==
  IF overlay.hidden
  THEN overlay.click = <<>> /\ keydown = <<>>
  ELSE overlay.click = <<"onBackdropClick">> /\ keydown = <<"onEsc">>

\* opened twice in a row (Loading, then Detail), then closed once
W1_ClosedAfterTwoOpens ==
  overlay.hidden /\ HasCloseControl(overlay) /\ overlay.click = <<>>
  /\ keydown = <<>>

\* C2: a visible overlay has a non-empty panel, and the panel was written by
\* the handler of the most recently activated Details control.
C2_VisibleShowsLatestActivation ==
  ~overlay.hidden => overlay.children # <<>> /\ shownAct = lastAct

\* C3: on an open overlay a click on the backdrop itself, an Escape key
\* press and (in Detail) a click on the Close control close it; a click
\* inside the panel or another key leaves the overlay as it is; the Close
\* control exists exactly in the Detail view.
C3_Dismissal ==
  /\ [](overlay.children # <<>> =>
          (HasCloseControl(overlay) <=> "title" \in DOMAIN Panel))
  /\ [][~overlay.hidden =>
          /\ OverlayClick("overlay") => Closed'
          /\ Keydown("Escape") => Closed'
          /\ OverlayClick("overlayClose") => "title" \in DOMAIN Panel /\ Closed'
          /\ OverlayClick("panel") => UNCHANGED << overlay, keydown >>
          /\ Keydown("Enter") => UNCHANGED << overlay, keydown >>]_vars

\* the Loading view, dismissed
W3_LoadingDismissed ==
  Closed /\ overlay.children = <<LoadingPanel("Loading details...")>>

IsBlank(value) == \A i \in 1..Len(value) : value[i] = " "

PromptMessage == << [tag |-> "p", text |-> "Type a movie title to search!"] >>

\* C4: a submit whose query is empty after trimming shows the prompt
\* message and issues no request: the requests in flight stay as they were.
C4_EmptyQuery ==
  [][\A value \in Queries :
       IsBlank(value) /\ Submit(value) =>
         results' = PromptMessage /\ pending' = pending /\ nextReq' = nextReq]_vars

\* the prompt shown while an earlier search is still in flight
W4_PromptWhileSearching ==
  results = PromptMessage /\ \E r \in pending : r.kind = "search"

GenericFailure == << [tag |-> "p", text |-> "Something went wrong - try again"] >>

HasNullEntry(list) == \E i \in 1..Len(list) : list[i] = NullRecord

\* the Search array of a body, or the empty list when it has none
SearchOf(data) == IF "Search" \in DOMAIN data THEN data.Search ELSE <<>>

\* this step takes request r out of position pc
Leaves(r, kind, pc) == r.kind = kind /\ r.pc = pc /\ r \notin pending'

\* search bodies by outcome: Response "False"; a null entry to render;
\* no match; a non-empty list of records
FailedBodies == {data \in SearchBodies : Get(data, "Response") = "False"}

UnrenderableBodies ==
  {data \in SearchBodies \ FailedBodies : HasNullEntry(SearchOf(data))}

EmptyBodies == {data \in SearchBodies \ FailedBodies : SearchOf(data) = <<>>}

RecordBodies ==
  SearchBodies \ (FailedBodies \cup UnrenderableBodies \cup EmptyBodies)

\* C5: when a search fails (fetch rejected, non-2xx status, Response "False"
\* with or without Error, or an exception while rendering) the results
\* region holds the generic message, not the error's, and no error leaves
\* the handler.
C5_SearchFailureIsGeneric ==
  [][\A r \in pending :
       /\ Leaves(r, "search", "fetch") =>
            \A res \in FetchOutcomes :
              SearchFetchSettle(r, res) /\ (res.type = "reject" \/ ~res.ok) =>
                results' = GenericFailure /\ ~unhandled'
       /\ Leaves(r, "search", "json") =>
            \A data \in FailedBodies \cup UnrenderableBodies :
              SearchJsonSettle(r, data) =>
                results' = GenericFailure /\ ~unhandled']_vars

\* the generic message shown after rendering threw
W5_GenericAfterRenderError ==
  results = GenericFailure /\ console.name = "TypeError"
  /\ console.message = "Cannot read properties of null"

IsMessagePanel(p) == "text" \in DOMAIN p

ErrorShown ==
  /\ ~overlay.hidden /\ overlay.children # <<>>
  /\ IsMessagePanel(Panel) /\ Panel.text # "Loading details..."

\* C6: a failed detail fetch leaves the overlay open on the single-message
\* panel with the failure's message ("network error: <status>", the Error
\* text of the payload) or "Could not load details" when there is none, and
\* that state lasts until the user dismisses the overlay or activates a
\* Details control.
C6_DetailFailureStaysShown ==
  /\ [][\A r \in pending :
         /\ Leaves(r, "detail", "fetch") =>
              \A res \in FetchOutcomes :
                DetailFetchSettle(r, res) /\ (res.type = "reject" \/ ~res.ok) =>
                  /\ ~overlay'.hidden
                  /\ overlay'.children =
                       << LoadingPanel(IF res.type = "reject" THEN res.message
                                       ELSE "network error: " \o ToString(res.status)) >>
         /\ Leaves(r, "detail", "json") =>
              \A data \in DetailBodies(r.arg) :
                DetailJsonSettle(r, data) /\ Get(data, "Response") = "False" =>
                  /\ ~overlay'.hidden
                  /\ overlay'.children =
                       << LoadingPanel(IF Truthy(Get(data, "Error")) THEN data.Error
                                       ELSE "Could not load details") >>]_vars
  /\ [][ErrorShown /\ overlay' # overlay =>
          \/ \E target \in {"overlay", "panel", "overlayClose"} : OverlayClick(target)
          \/ \E key \in Keys : Keydown(key)
          \/ \E i \in 1..MaxCards : ClickDetails(i)]_vars

\* C7: searchMovies throws "network error: <status>" on a non-2xx status
\* without awaiting the body; else, on Response "False", it throws the
\* Error text, or "Unknown OMDb error" when Error is absent or empty; in
\* every other case it returns.
C7_SearchMoviesErrors ==
  [][\A r \in pending :
       /\ Leaves(r, "search", "fetch") =>
            \A res \in FetchOutcomes :
              SearchFetchSettle(r, res) /\ res.type = "response" =>
                IF ~res.ok
                THEN /\ console' = [name |-> "Error",
                                    message |-> "network error: "
                                                  \o ToString(res.status)]
                     /\ \A q \in pending' : q.n # r.n
                ELSE /\ console' = console
                     /\ \E q \in pending' : q.n = r.n /\ q.pc = "json"
       /\ Leaves(r, "search", "json") =>
            /\ \A data \in FailedBodies :
                 SearchJsonSettle(r, data) =>
                   console' =
                     [name |-> "Error",
                      message |-> IF Truthy(Get(data, "Error")) THEN data.Error
                                  ELSE "Unknown OMDb error"]
            /\ \A data \in UnrenderableBodies :
                 SearchJsonSettle(r, data) => console'.name = "TypeError"
            /\ \A data \in EmptyBodies \cup RecordBodies :
                 SearchJsonSettle(r, data) =>
                   console' = console /\ results' # GenericFailure]_vars

\* the fallback message of a Response "False" body without Error
W7_FallbackLogged ==
  console = [name |-> "Error", message |-> "Unknown OMDb error"]

NoResults == << [tag |-> "p", text |-> "No results - try another search?"] >>

\* C8: a 2xx response whose body is not Response "False" and whose Search
\* array is absent or empty is no error: the region shows exactly
\* "No results - try another search?" and nothing is caught.
C8_EmptySearchIsNoError ==
  [][\A r \in pending :
       Leaves(r, "search", "json") =>
         \A data \in EmptyBodies :
           SearchJsonSettle(r, data) =>
             results' = NoResults /\ console' = console]_vars

\* the message for no matches, with no error ever caught
W8_NoResultsShown == results = NoResults /\ console = NoError

\* C9: for a non-empty list of records, renderResults leaves exactly one
\* card per record, in input order, and nothing of the prior content; the
\* Details control of each card is bound to the identifier of its record.
C9_OneCardPerRecord ==
  [][\A r \in pending :
       Leaves(r, "search", "json") =>
         \A data \in RecordBodies :
           SearchJsonSettle(r, data) =>
             /\ Len(results') = Len(data.Search)
             /\ \A i \in 1..Len(data.Search) :
                  /\ results'[i].tag = "article"
                  /\ results'[i].title = data.Search[i].Title
                  /\ results'[i].meta = data.Search[i].Year
                  /\ results'[i].btn = data.Search[i].imdbID]_vars

IsCard(node) == node.tag = "article"

\* two cards on show, for two different records
W9_TwoCards ==
  Len(results) = 2 /\ IsCard(results[1]) /\ IsCard(results[2])
  /\ results[1].btn = "tt2" /\ results[2].btn = "tt1"
  /\ results[1].title = "Batman Returns" /\ results[2].meta = "1989"

\* C10: a card is the "No Poster" placeholder exactly when the poster field
\* of its record is missing, empty or "N/A"; otherwise it is an image whose
\* source is that very string.
C10_PosterOrPlaceholder ==
  [][\A r \in pending :
       Leaves(r, "search", "json") =>
         \A data \in RecordBodies :
           SearchJsonSettle(r, data) =>
             \A i \in 1..Len(data.Search) :
               LET poster == Get(data.Search[i], "Poster")
                   thumb == results'[i].thumb
               IN  IF poster \in {Undefined, "", "N/A"}
                   THEN /\ thumb.tag = "div"
                        /\ thumb.textContent = "No Poster"
                   ELSE /\ thumb.tag = "img"
                        /\ thumb.src = poster]_vars

\* a placeholder card for the record whose poster is "", then an image card
W10_PlaceholderAndImage ==
  /\ Len(results) = 2 /\ IsCard(results[1]) /\ IsCard(results[2])
  /\ results[1].thumb.tag = "div" /\ results[1].btn = "tt2"
  /\ results[2].thumb.tag = "img" /\ results[2].thumb.src = PosterUrl("tt1")

\* the region holds the outcome of a search: the generic failure, the
\* message for no matches, or cards
SearchOutcomeShown(region) ==
  \/ region = GenericFailure
  \/ region = NoResults
  \/ Len(region) >= 1 /\ \A i \in 1..Len(region) : IsCard(region[i])

\* the overlay is open on the detail or the error of a request
DetailOutcomeShown(ov) ==
  /\ ~ov.hidden /\ ov.children # <<>>
  /\ \/ HasCloseControl(ov)
     \/ IsMessagePanel(ov.children[1])
        /\ ov.children[1].text # "Loading details..."

\* C11: overlapping requests are neither cancelled nor dropped: a step takes
\* at most one request out of flight, a trigger takes none, and the request
\* that completes writes its outcome to its region (the results region for
\* a search, the overlay for a detail fetch) whatever was triggered or shown
\* in between, so the region ends on the outcome that arrived last.
C11_CompletionOrderWins ==
  [][/\ Cardinality(pending \ pending') <= 1
     /\ nextReq' # nextReq => pending \subseteq pending'
     /\ \A r \in pending :
          r \notin pending' =>
            \/ r.pc = "fetch" /\ [r EXCEPT !.pc = "json"] \in pending'
            \/ r.kind = "search" /\ SearchOutcomeShown(results')
            \/ r.kind = "detail" /\ DetailOutcomeShown(overlay')
                                 /\ shownAct' = r.n]_vars

\* every request has completed and the overlay is on the outcome of an
\* activation that was not the last one triggered
W11_EarlierActivationCompletedLast ==
  /\ pending = {} /\ DetailOutcomeShown(overlay)
  /\ shownAct > 0 /\ shownAct < lastAct

IsLoadingDetails(ov) ==
  ~ov.hidden /\ ov.children = <<LoadingPanel("Loading details...")>>

\* C12: the overlay leaves Closed only for Loading("Loading details...") on
\* the activation of a Details control, and enters Detail only from Loading;
\* a completion that arrives after a dismissal leaves the overlay Closed.
C12_OverlayStateMachine ==
  /\ [][overlay.hidden /\ ~overlay'.hidden =>
          IsLoadingDetails(overlay') /\ \E i \in 1..MaxCards : ClickDetails(i)]_vars
  /\ [][HasCloseControl(overlay') /\ overlay' # overlay =>
          ~overlay.hidden /\ overlay.children # <<>>
          /\ IsMessagePanel(overlay.children[1])]_vars

\* the detail request numbered n is in flight
DetailInFlight(n) == \E r \in pending : r.n = n /\ r.kind = "detail"

\* C13: an activation of a Details control shows Loading("Loading
\* details...") in the step that issues its request, and, the request being
\* answered, the overlay is later open on the detail or the error message of
\* that very request.
C13_LoadingThenOutcome ==
  /\ [][lastAct' # lastAct =>
          /\ IsLoadingDetails(overlay') /\ shownAct' = lastAct'
          /\ \E r \in pending' \ pending :
               r.n = lastAct' /\ r.kind = "detail" /\ r.pc = "fetch"]_vars
  /\ \A n \in 1..MaxRequests :
       DetailInFlight(n) ~> (DetailOutcomeShown(overlay) /\ shownAct = n)

\* the detail view of the one activation, its request answered
W13_DetailOfTheActivation ==
  /\ pending = {} /\ ~overlay.hidden /\ HasCloseControl(overlay)
  /\ shownAct = lastAct /\ lastAct = 2

\* C14: the results region and the overlay are independent.  A submit and
\* the completion of a search leave the overlay and its listeners as they
\* were; opening, updating or closing the overlay leaves the results region
\* as it was and never empties the panel; closeOverlay on a closed overlay
\* changes neither visibility nor listeners.
C14_RegionsIndependent ==
  /\ [](overlay.hidden =>
          LET dom == CloseOverlay(Dom)
          IN  /\ dom.overlay.hidden = overlay.hidden
              /\ dom.overlay.ariaHidden = overlay.ariaHidden
              /\ dom.overlay.click = overlay.click
              /\ dom.keydown = keydown)
  /\ [][/\ (\E value \in Queries : Submit(value)) =>
            UNCHANGED << overlay, keydown >>
        /\ \A r \in pending :
             r.kind = "search" /\ r \notin pending' =>
               UNCHANGED << overlay, keydown >>
        /\ results' # results => UNCHANGED << overlay, keydown >>
        /\ lastAct' # lastAct => results' = results
        /\ << overlay, keydown >>' # << overlay, keydown >> =>
             results' = results /\ overlay'.children # <<>>]_vars

\* the overlay still open after a later search replaced the cards it was
\* opened from
W14_OpenAcrossSearch == ~overlay.hidden /\ results = NoResults

====
